---- MODULE Spec2Model ----
\* Model of the single-word Myers bit-parallel matcher
\* (src/src/pattern_matching/myers/myers_impl.rs): the column state, the
\* distance rollback, and the three match iterators Matches, FullMatches and
\* LazyMatches, together with the reference quadratic DP they are checked
\* against.
EXTENDS Integers, Sequences, FiniteSets, TLC

\* ---------------------------------------------------------------- bounds
\* Width of the bit vector type T (a real build uses 8..128 bits).
WordBits == 3
\* Longest text that is searched.
MaxTextLen == 3
\* Largest max_dist a caller passes.
MaxK == 1
\* Ceiling of the distance type ($max_dist of the macro, D::max_value()).
DistMax == 15
\* Most stateful searches that are started on one engine, one after another.
MaxSearches == 2

Sigma == {0, 1}
Rows == 0 .. (WordBits - 1)
DistMod == DistMax + 1

SeqsUpTo(S, lo, hi) == UNION {[1 .. n -> S] : n \in lo .. hi}
Patterns == SeqsUpTo(Sigma, 1, WordBits)
Texts == SeqsUpTo(Sigma, 0, MaxTextLen)

None == <<>>
Some(x) == <<x>>
\* The element of a one-element set: {f(x) : x \in {e}} evaluates e once.
The(S) == CHOOSE x \in S : TRUE
Min2(a, b) == IF a <= b THEN a ELSE b
Min3(a, b, c) == Min2(a, Min2(b, c))

RECURSIVE Reverse(_)
Reverse(s) == IF s = <<>> THEN <<>> ELSE Append(Reverse(Tail(s)), Head(s))

\* ------------------------------------------------- bit vectors of type T
\* A word is the set of its set bit positions; the arithmetic the code does
\* on words (+, <<, !) is done modulo 2^WordBits.
RECURSIVE Pow2(_)
Pow2(n) == IF n = 0 THEN 1 ELSE 2 * Pow2(n - 1)

RECURSIVE ToNat(_)
ToNat(bv) ==
    IF bv = {} THEN 0
    ELSE LET i == CHOOSE x \in bv : TRUE IN Pow2(i) + ToNat(bv \ {i})

FromNat(n) == {i \in Rows : (n \div Pow2(i)) % 2 = 1}
AllOnes == Rows
BNot(bv) == Rows \ bv
BXor(a, b) == (a \ b) \cup (b \ a)
WrappingAdd(a, b) == FromNat((ToNat(a) + ToNat(b)) % Pow2(WordBits))
Shl1(bv) == {i + 1 : i \in bv} \cap Rows
count_ones(bv) == Cardinality(bv)

\* ------------------------------------------------------------ State<T, D>
State(pv, mv, dist) == [pv |-> pv, mv |-> mv, dist |-> dist]

\* State::default()
State_default == State({}, {}, 0)

\* State::init(m)
State_init_mv_set(m) == State(AllOnes, {0}, m)
State_init_zero_dist(m) == State(AllOnes, {}, 0)
State_init(m) == State(AllOnes, {}, m)

\* State::init_max_dist()
init_max_dist == State_init(DistMax)

\* State::known_dist()
known_dist(state) == Some(state.dist)

\* State::adjust_up_by(range_mask): the distance travels through u64 with
\* wrapping arithmetic and is converted back to the distance type.
adjust_up_by_swapped(state, range_mask) ==
    LET p == count_ones(state.pv \cap range_mask)
        m == count_ones(state.mv \cap range_mask)
    IN [state EXCEPT !.dist = (state.dist + p - m) % DistMod]
adjust_up_by(state, range_mask) ==
    LET p == count_ones(state.pv \cap range_mask)
        m == count_ones(state.mv \cap range_mask)
    IN [state EXCEPT !.dist = (state.dist + m - p) % DistMod]

\* State::adjust_one_up(pos_mask)
adjust_one_up(state, pos_mask) ==
    IF state.pv \cap pos_mask # {}
    THEN [state EXCEPT !.dist = (state.dist - 1) % DistMod]
    ELSE IF state.mv \cap pos_mask # {}
         THEN [state EXCEPT !.dist = (state.dist + 1) % DistMod]
         ELSE state

\* ------------------------------------------------------------- the engine
\* Equality mask of symbol a: bit i is set iff pattern position i equals a.
peq(pattern, a) == {i \in Rows : i < Len(pattern) /\ pattern[i + 1] = a}

\* Myers::initial_state(m, max_dist)
initial_state(m, max_dist) == State_init(m)

\* Clamped += 1 / -= 1 of the distance type.
DistInc(d) == IF d < DistMax THEN d + 1 ELSE DistMax
DistDec(d) == IF d > 0 THEN d - 1 ELSE 0

\* Myers::step(state, a, max_dist): one column transition.
step(pattern, state, a, max_dist) ==
    LET m == Len(pattern)
        eq == peq(pattern, a)
        xv == eq \cup state.mv
        xh == BXor(WrappingAdd(eq \cap state.pv, state.pv), state.pv) \cup eq
        ph == state.mv \cup BNot(xh \cup state.pv)
        mh == state.pv \cap xh
        d1 == IF (m - 1) \in ph THEN DistInc(state.dist) ELSE state.dist
        d2 == IF (m - 1) \in mh THEN DistDec(d1) ELSE d1
        phs == Shl1(ph)
        mhs == Shl1(mh)
    IN State(mhs \cup BNot(xv \cup phs), phs \cap xv, d2)

\* The bottom-row carries of Myers::step: whether bit m-1 of Ph and of Mh
\* is set for the transition of state on symbol a.
step_carry(pattern, state, a) ==
    LET m == Len(pattern)
        eq == peq(pattern, a)
        xh == BXor(WrappingAdd(eq \cap state.pv, state.pv), state.pv) \cup eq
        ph == state.mv \cup BNot(xh \cup state.pv)
        mh == state.pv \cap xh
    IN [inc |-> (m - 1) \in ph, dec |-> (m - 1) \in mh]

\* ------------------------------------------------ reference quadratic DP
\* D[0][j] = 0 (free start), D[i][0] = i; a column is the sequence
\* <<D[0][j], ..., D[m][j]>>.
RECURSIVE RefColUpTo(_, _, _, _)
RefColUpTo(pattern, prev, c, i) ==
    IF i = 0 THEN <<0>>
    ELSE LET below == RefColUpTo(pattern, prev, c, i - 1)
             sub == prev[i] + (IF pattern[i] = c THEN 0 ELSE 1)
         IN Append(below, Min3(sub, prev[i + 1] + 1, below[i] + 1))

RECURSIVE RefCol(_, _, _)
RefCol(pattern, txt, j) ==
    IF j = 0 THEN [i \in 1 .. (Len(pattern) + 1) |-> i - 1]
    ELSE RefColUpTo(pattern, RefCol(pattern, txt, j - 1), txt[j], Len(pattern))

\* Reference distance of the pattern against a substring ending at text
\* position e (0-based, inclusive), and at DP row i of that column.
RefCell(pattern, txt, e, i) == RefCol(pattern, txt, e + 1)[i + 1]
RefDist(pattern, txt, e) == RefCell(pattern, txt, e, Len(pattern))

\* -------------------------------------------------- Matches (find_all_end)
\* Matches::new
Matches_new(pat, k) == [state |-> initial_state(Len(pat), k), text |-> 0, max_dist |-> k]

\* find_all_end: max_dist is capped at the ceiling of the distance type.
find_all_end_uncapped(pat, k) == Matches_new(pat, k)
find_all_end(pat, k) == Matches_new(pat, Min2(k, DistMax))

\* The value Matches::next returns for a match found at enumerate index i.
Matches_item_off_by_one(i, dist) == <<i + 1, dist>>
Matches_item(i, dist) == <<i, dist>>

\* The test of Matches::next on the distance of the column just computed.
Matches_hit_strict(dist, k) == dist < k
Matches_hit(dist, k) == dist <= k

\* Matches::next: the loop over the remaining text; self.text counts the
\* symbols the enumerate adaptor has handed out.
RECURSIVE Matches_next(_, _, _)
Matches_next(pat, txt, self) ==
    IF self.text >= Len(txt) THEN [self |-> self, ret |-> None]
    ELSE The({LET i == self.text
                  nxt == [self EXCEPT !.state = st, !.text = i + 1]
                  d == known_dist(st)
              IN IF d # None /\ Matches_hit(d[1], self.max_dist)
                 THEN [self |-> nxt, ret |-> Some(Matches_item(i, d[1]))]
                 ELSE Matches_next(pat, txt, nxt)
              : st \in {step(pat, self.state, txt[self.text + 1], self.max_dist)}})

\* Myers::distance
RECURSIVE distance_loop(_, _, _, _, _)
distance_loop(pat, txt, state, i, dist) ==
    IF i >= Len(txt) THEN dist
    ELSE The({LET d == known_dist(st)
              IN distance_loop(pat, txt, st, i + 1,
                               IF d # None /\ d[1] < dist THEN d[1] ELSE dist)
              : st \in {step(pat, state, txt[i + 1], DistMax)}})

distance(pat, txt) ==
    distance_loop(pat, txt, initial_state(Len(pat), DistMax), 0, DistMax)

\* Iterator::collect over Matches::next.
RECURSIVE Matches_collect(_, _, _)
Matches_collect(pat, txt, self) ==
    The({IF r.ret = None THEN <<>>
         ELSE <<r.ret[1]>> \o Matches_collect(pat, txt, r.self)
         : r \in {Matches_next(pat, txt, self)}})

\* Iterator::min_by_key(|&(_, dist)| dist): the first of the minimal items.
RECURSIVE min_by_key_last(_)
min_by_key_last(items) ==
    IF items = <<>> THEN None
    ELSE The({IF rest = None \/ Head(items)[2] < rest[1][2]
              THEN Some(Head(items))
              ELSE rest
              : rest \in {min_by_key_last(Tail(items))}})

RECURSIVE min_by_key(_)
min_by_key(items) ==
    IF items = <<>> THEN None
    ELSE The({IF rest = None \/ Head(items)[2] <= rest[1][2]
              THEN Some(Head(items))
              ELSE rest
              : rest \in {min_by_key(Tail(items))}})

\* Myers::find_best_end: unwrap() of an absent minimum panics.
find_best_end_or_default(pat, txt) ==
    The({IF best = None THEN <<0, DistMax>> ELSE best[1]
         : best \in {min_by_key(Matches_collect(pat, txt, find_all_end(pat, DistMax)))}})
find_best_end(pat, txt) ==
    The({IF best = None THEN "panic" ELSE best[1]
         : best \in {min_by_key(Matches_collect(pat, txt, find_all_end(pat, DistMax)))}})

\* ------------------------------------------------ Traceback (the store)
\* The store keeps the columns in a buffer of num_cols + 2 slots that is
\* written cyclically: slot 0 first holds a column of maximal distance,
\* slot 1 the initial column, slot e + 2 the column of text position e.
\* A handle is [m, pos, n]: pos is the slot written last, n the slot count.

\* Vec::resize of the history buffer: extended with State::default() or
\* truncated, the retained slots keep their content.
Traceback_resize(states, n) ==
    IF n > Len(states)
    THEN states \o [i \in 1 .. (n - Len(states)) |-> State_default]
    ELSE SubSeq(states, 1, n)

\* Traceback::add_state
add_state(tb, column, states) ==
    LET pos == (tb.pos + 1) % tb.n
    IN [tb |-> [tb EXCEPT !.pos = pos], states |-> [states EXCEPT ![pos + 1] = column]]

\* Traceback::new
Traceback_new(states, initial, num_cols, m) ==
    LET n == num_cols + 2
        s0 == [Traceback_resize(states, n) EXCEPT ![1] = init_max_dist]
    IN add_state([m |-> m, pos |-> 0, n |-> n], initial, s0)

\* Mask of the v rows directly above row m: bits m-1 down to m-v.
RangeMask(m, v) == {i \in Rows : m - v <= i /\ i < m}

\* Slot to the left of slot col in the cyclic buffer.
LeftOf(tb, col) == (col + tb.n - 1) % tb.n

\* The walk from the bottom row of a column up to row 0: state is the
\* current column and lstate the column to its left (slot lcol), both with
\* dist adjusted to the current row; cur is the bit of the row above.
\* Up (the vertical delta is +1) is an Ins, left (the left cell is one
\* smaller) a Del, otherwise the diagonal is a Match or a Subst.
RECURSIVE Traceback_walk(_, _, _, _, _, _, _, _, _)
Traceback_walk(tb, states, lcol, state, lstate, cur, v_offset, h_offset, out) ==
    IF v_offset >= tb.m THEN [len |-> h_offset, ops |-> out]
    ELSE IF cur \in state.pv
    THEN Traceback_walk(tb, states, lcol,
                        adjust_one_up(state, {cur}), adjust_one_up(lstate, {cur}),
                        cur - 1, v_offset + 1, h_offset, Append(out, "Ins"))
    ELSE IF (lstate.dist + 1) % DistMod = state.dist
    THEN Traceback_walk(tb, states, LeftOf(tb, lcol),
                        lstate,
                        adjust_up_by(states[LeftOf(tb, lcol) + 1], RangeMask(tb.m, v_offset)),
                        cur, v_offset, h_offset + 1, Append(out, "Del"))
    ELSE The({Traceback_walk(tb, states, LeftOf(tb, lcol),
                             up,
                             adjust_up_by(states[LeftOf(tb, lcol) + 1],
                                          RangeMask(tb.m, v_offset + 1)),
                             cur - 1, v_offset + 1, h_offset + 1,
                             Append(out, IF up.dist = state.dist THEN "Match" ELSE "Subst"))
              : up \in {adjust_one_up(lstate, {cur})}})

\* Traceback::_traceback_at(pos, ops, states): the operations are pushed to
\* the sink in reverse (end to start) order; sink = None is no sink.
\* Returns (alignment length, distance) and the sink.
Traceback_at_slot(tb, pos, sink, states) ==
    The({[ret |-> Some(<<w.len, states[pos + 1].dist>>),
          sink |-> IF sink = None THEN None ELSE Some(sink[1] \o w.ops)]
         : w \in {Traceback_walk(tb, states, LeftOf(tb, pos), states[pos + 1],
                                 states[LeftOf(tb, pos) + 1], tb.m - 1, 0, 0, <<>>)}})

\* Traceback::traceback: the column added last.
traceback(tb, sink, states) == Traceback_at_slot(tb, tb.pos, sink, states)

\* Traceback::traceback_at(end_pos, ops, states)
traceback_at(tb, end_pos, sink, states) ==
    IF end_pos + 2 <= tb.pos
    THEN Traceback_at_slot(tb, end_pos + 2, sink, states)
    ELSE [ret |-> None, sink |-> sink]

\* Traceback::dist_at(end_pos, states)
Traceback_dist_at(tb, end_pos, states) ==
    IF end_pos + 2 <= tb.pos THEN Some(states[end_pos + 3].dist) ELSE None

\* update_aln(end_pos, aln_len, text_len, dist, m, aln)
update_aln(end_pos, aln_len, text_len, dist, m, aln) ==
    [aln EXCEPT !.score = dist, !.ystart = end_pos + 1 - aln_len, !.yend = end_pos + 1,
                !.ylen = text_len, !.xend = m]

\* Myers::step_trace
step_trace_add_before(pat, state, a, k, tb, states) ==
    The({[state |-> step(pat, state, a, k), tb |-> r.tb, states |-> r.states]
         : r \in {add_state(tb, state, states)}})
step_trace(pat, state, a, k, tb, states) ==
    The({LET r == add_state(tb, st, states)
         IN [state |-> st, tb |-> r.tb, states |-> r.states]
         : st \in {step(pat, state, a, k)}})

\* ------------------------------------------------ FullMatches (find_all)
\* The handle holds the engine exclusively; states_store is the engine's
\* history buffer (self.myers.states_store), text the number of symbols the
\* enumerate adaptor has handed out.

\* FullMatches::new
FullMatches_new_resumed(pat, states, text_len, k) ==
    LET m == Len(pat)
        state == IF states = <<>> THEN initial_state(m, k) ELSE states[Len(states)]
        num_cols == m + Min2(k, m)
        t == Traceback_new(states, state, num_cols, m)
    IN [m |-> m, traceback |-> t.tb, states_store |-> t.states, state |-> state,
        text_len |-> text_len, text |-> 0, max_dist |-> k, pos |-> 0,
        unsuccessfully_finished |-> FALSE]
FullMatches_new_max_dist_window(pat, states, text_len, k) ==
    LET m == Len(pat)
        state == initial_state(m, k)
        num_cols == Min2(k, m)
        t == Traceback_new(states, state, num_cols, m)
    IN [m |-> m, traceback |-> t.tb, states_store |-> t.states, state |-> state,
        text_len |-> text_len, text |-> 0, max_dist |-> k, pos |-> 0,
        unsuccessfully_finished |-> FALSE]
FullMatches_new(pat, states, text_len, k) ==
    LET m == Len(pat)
        state == initial_state(m, k)
        num_cols == m + Min2(k, m)
        t == Traceback_new(states, state, num_cols, m)
    IN [m |-> m, traceback |-> t.tb, states_store |-> t.states, state |-> state,
        text_len |-> text_len, text |-> 0, max_dist |-> k, pos |-> 0,
        unsuccessfully_finished |-> FALSE]

\* Myers::find_all
find_all(pat, states, text_len, k) ==
    FullMatches_new(pat, states, text_len, Min2(k, DistMax))

\* The end of FullMatches::next_end when the text is exhausted.
next_end_exhausted_unmarked(self) == self
next_end_exhausted(self) == [self EXCEPT !.unsuccessfully_finished = TRUE]

\* The test of FullMatches::next_end on the distance of the new column.
next_end_hit_strict(dist, k) == dist < k
next_end_hit(dist, k) == dist <= k

\* FullMatches::next_end
RECURSIVE next_end(_, _, _)
next_end(pat, txt, self) ==
    IF self.text >= Len(txt) THEN [self |-> next_end_exhausted(self), ret |-> None]
    ELSE The({LET i == self.text
                  nxt == [self EXCEPT !.pos = i, !.text = i + 1, !.state = r.state,
                                      !.traceback = r.tb, !.states_store = r.states]
                  d == known_dist(r.state)
              IN IF d # None /\ next_end_hit(d[1], self.max_dist)
                 THEN [self |-> nxt, ret |-> Some(<<i, d[1]>>)]
                 ELSE next_end(pat, txt, nxt)
              : r \in {step_trace(pat, self.state, txt[self.text + 1], self.max_dist,
                                  self.traceback, self.states_store)}})

\* Option::unwrap of an absent value.
Panic == "panic"

\* FullMatches::start
start(self) ==
    IF self.unsuccessfully_finished THEN None
    ELSE The({IF t.ret = None THEN Panic
              ELSE Some(self.pos + 1 - t.ret[1][1])
              : t \in {traceback(self.traceback, None, self.states_store)}})

\* FullMatches::path_reverse(ops): the returned value and the vector.
path_reverse(self, ops) ==
    IF self.unsuccessfully_finished THEN [ret |-> None, ops |-> ops]
    ELSE The({IF t.ret = None THEN [ret |-> Panic, ops |-> t.sink[1]]
              ELSE [ret |-> Some(self.pos + 1 - t.ret[1][1]), ops |-> t.sink[1]]
              : t \in {traceback(self.traceback, Some(<<>>), self.states_store)}})

\* FullMatches::path(ops)
path_not_reversed(self, ops) == path_reverse(self, ops)
path(self, ops) ==
    The({IF r.ret = None THEN r ELSE [ret |-> r.ret, ops |-> Reverse(r.ops)]
         : r \in {path_reverse(self, ops)}})

\* FullMatches::alignment(aln): the returned flag and the alignment.
alignment_not_cleared(self, aln) ==
    IF self.unsuccessfully_finished THEN [ret |-> FALSE, aln |-> aln]
    ELSE LET dist == known_dist(self.state)
         IN IF dist = None THEN [ret |-> FALSE, aln |-> aln]
            ELSE The({IF t.ret = None THEN [ret |-> Panic, aln |-> aln]
                      ELSE [ret |-> TRUE,
                            aln |-> update_aln(self.pos, t.ret[1][1], self.text_len,
                                               dist[1], self.m,
                                               [aln EXCEPT !.operations =
                                                   Reverse(t.sink[1])])]
                      : t \in {traceback(self.traceback, Some(aln.operations),
                                         self.states_store)}})
alignment(self, aln) ==
    IF self.unsuccessfully_finished THEN [ret |-> FALSE, aln |-> aln]
    ELSE LET dist == known_dist(self.state)
         IN IF dist = None THEN [ret |-> FALSE, aln |-> aln]
            ELSE The({LET cleared == [aln EXCEPT !.operations = <<>>]
                      IN IF t.ret = None THEN [ret |-> Panic, aln |-> cleared]
                         ELSE [ret |-> TRUE,
                               aln |-> update_aln(self.pos, t.ret[1][1], self.text_len,
                                                  dist[1], self.m,
                                                  [cleared EXCEPT !.operations =
                                                      Reverse(t.sink[1])])]
                      : t \in {traceback(self.traceback, Some(<<>>),
                                         self.states_store)}})

\* The range FullMatches yields for a match: the start, the exclusive end
\* (end + 1) and the distance.
FullMatches_item_inclusive(start_pos, end_pos, dist) == <<start_pos, end_pos, dist>>
FullMatches_item(start_pos, end_pos, dist) == <<start_pos, end_pos + 1, dist>>

\* FullMatches::next_path(ops)
next_path(pat, txt, self, ops) ==
    The({IF r.ret = None THEN [self |-> r.self, ret |-> None, ops |-> ops]
         ELSE The({IF q.ret = None \/ q.ret = Panic
                   THEN [self |-> r.self, ret |-> Panic, ops |-> q.ops]
                   ELSE [self |-> r.self,
                         ret |-> Some(FullMatches_item(q.ret[1], r.ret[1][1], r.ret[1][2])),
                         ops |-> q.ops]
                   : q \in {path(r.self, ops)}})
         : r \in {next_end(pat, txt, self)}})

\* FullMatches::next_path_reverse(ops)
next_path_reverse(pat, txt, self, ops) ==
    The({IF r.ret = None THEN [self |-> r.self, ret |-> None, ops |-> ops]
         ELSE The({IF q.ret = None \/ q.ret = Panic
                   THEN [self |-> r.self, ret |-> Panic, ops |-> q.ops]
                   ELSE [self |-> r.self,
                         ret |-> Some(FullMatches_item(q.ret[1], r.ret[1][1], r.ret[1][2])),
                         ops |-> q.ops]
                   : q \in {path_reverse(r.self, ops)}})
         : r \in {next_end(pat, txt, self)}})

\* FullMatches::next_alignment(aln)
next_alignment(pat, txt, self, aln) ==
    The({IF r.ret # None
         THEN [self |-> r.self, ret |-> TRUE, aln |-> alignment(r.self, aln).aln]
         ELSE [self |-> r.self, ret |-> FALSE, aln |-> aln]
         : r \in {next_end(pat, txt, self)}})

\* Iterator::next of FullMatches
FullMatches_next(pat, txt, self) ==
    The({IF r.ret = None THEN [self |-> r.self, ret |-> None]
         ELSE The({IF q = None \/ q = Panic THEN [self |-> r.self, ret |-> Panic]
                   ELSE [self |-> r.self,
                         ret |-> Some(FullMatches_item(q[1], r.ret[1][1], r.ret[1][2]))]
                   : q \in {start(r.self)}})
         : r \in {next_end(pat, txt, self)}})

\* -------------------------------------------- LazyMatches (find_all_lazy)
\* LazyMatches::new: the store keeps one column per text position.
LazyMatches_new_windowed(pat, states, text_len, k) ==
    LET m == Len(pat)
        state == initial_state(m, k)
        t == Traceback_new(states, state, m + Min2(k, m), m)
    IN [m |-> m, traceback |-> t.tb, states_store |-> t.states, state |-> state,
        text_len |-> text_len, text |-> 0, max_dist |-> k]
LazyMatches_new(pat, states, text_len, k) ==
    LET m == Len(pat)
        state == initial_state(m, k)
        t == Traceback_new(states, state, text_len, m)
    IN [m |-> m, traceback |-> t.tb, states_store |-> t.states, state |-> state,
        text_len |-> text_len, text |-> 0, max_dist |-> k]

\* Myers::find_all_lazy
find_all_lazy(pat, states, text_len, k) ==
    LazyMatches_new(pat, states, text_len, Min2(k, DistMax))

\* The test of LazyMatches::next on the distance of the new column.
LazyMatches_hit_strict(dist, k) == dist < k
LazyMatches_hit(dist, k) == dist <= k

\* Iterator::next of LazyMatches
RECURSIVE LazyMatches_next(_, _, _)
LazyMatches_next(pat, txt, self) ==
    IF self.text >= Len(txt) THEN [self |-> self, ret |-> None]
    ELSE The({LET i == self.text
                  nxt == [self EXCEPT !.text = i + 1, !.state = r.state,
                                      !.traceback = r.tb, !.states_store = r.states]
                  d == known_dist(r.state)
              IN IF d # None /\ LazyMatches_hit(d[1], self.max_dist)
                 THEN [self |-> nxt, ret |-> Some(<<i, d[1]>>)]
                 ELSE LazyMatches_next(pat, txt, nxt)
              : r \in {step_trace(pat, self.state, txt[self.text + 1], self.max_dist,
                                  self.traceback, self.states_store)}})

\* LazyMatches::dist_at
dist_at(self, end_pos) == Traceback_dist_at(self.traceback, end_pos, self.states_store)

\* LazyMatches::hit_at
hit_at_off_by_one(self, end_pos) ==
    The({IF t.ret = None THEN None
         ELSE Some(<<end_pos - t.ret[1][1], t.ret[1][2]>>)
         : t \in {traceback_at(self.traceback, end_pos, None, self.states_store)}})
hit_at(self, end_pos) ==
    The({IF t.ret = None THEN None
         ELSE Some(<<end_pos + 1 - t.ret[1][1], t.ret[1][2]>>)
         : t \in {traceback_at(self.traceback, end_pos, None, self.states_store)}})

\* LazyMatches::path_at_reverse(end_pos, ops): the vector is handed to the
\* store as it is.
path_at_reverse(self, end_pos, ops) ==
    The({IF t.ret = None THEN [ret |-> None, ops |-> t.sink[1]]
         ELSE [ret |-> Some(<<end_pos + 1 - t.ret[1][1], t.ret[1][2]>>), ops |-> t.sink[1]]
         : t \in {traceback_at(self.traceback, end_pos, Some(ops), self.states_store)}})

\* LazyMatches::path_at(end_pos, ops)
path_at(self, end_pos, ops) ==
    The({IF r.ret = None THEN r ELSE [ret |-> r.ret, ops |-> Reverse(r.ops)]
         : r \in {path_at_reverse(self, end_pos, ops)}})

\* LazyMatches::alignment_at(end_pos, aln)
alignment_at_latest(self, end_pos, aln) ==
    The({LET cleared == [aln EXCEPT !.operations = <<>>]
         IN IF t.ret = None THEN [ret |-> FALSE, aln |-> cleared]
            ELSE [ret |-> TRUE,
                  aln |-> update_aln(end_pos, t.ret[1][1], self.text_len, t.ret[1][2],
                                     self.m,
                                     [cleared EXCEPT !.operations = Reverse(t.sink[1])])]
         : t \in {traceback(self.traceback, Some(<<>>), self.states_store)}})
alignment_at(self, end_pos, aln) ==
    The({LET cleared == [aln EXCEPT !.operations = <<>>]
         IN IF t.ret = None THEN [ret |-> FALSE, aln |-> cleared]
            ELSE [ret |-> TRUE,
                  aln |-> update_aln(end_pos, t.ret[1][1], self.text_len, t.ret[1][2],
                                     self.m,
                                     [cleared EXCEPT !.operations = Reverse(t.sink[1])])]
         : t \in {traceback_at(self.traceback, end_pos, Some(<<>>),
                               self.states_store)}})

\* ------------------------------------------------------------------ state
VARIABLES
    pattern,    \* the engine's pattern (m and the equality table)
    text,       \* the text handed to the search
    max_dist,   \* the max_dist argument of the search
    handle,     \* which search is in progress on the engine
    matches,    \* the Matches iterator (find_all_end)
    full,       \* the FullMatches iterator (find_all), with the engine it holds
    lazy,       \* the LazyMatches iterator (find_all_lazy), with its engine
    ret,        \* the last call: its name, arguments, returned value and
                \* the caller's vector and alignment as the call left them
    yielded,    \* (end, distance) of the matches yielded so far, in order
    exhausted,  \* an advance of the iterator has returned None (or false)
    myers,      \* the engine while no stateful iterator holds it: its
                \* history buffer (states_store)
    scans,      \* the Matches iterators that share the engine, each with
                \* its text and what it has yielded
    searches,   \* number of stateful searches started on the engine
    column      \* a column state that is stepped symbol by symbol, with the
                \* reference DP column of the same symbols

vars ==
    <<pattern, text, max_dist, handle, matches, full, lazy, ret, yielded, exhausted,
      myers, scans, searches, column>>

\* Vectors and alignments a caller hands to a query: fresh, or left over
\* from an earlier use.
OpsInputs == {<<>>, <<"Subst", "Del">>}
Alignment_default ==
    [operations |-> <<>>, score |-> 0, ystart |-> 0, yend |-> 0, ylen |-> 0, xend |-> 0]
Alignment_used ==
    [operations |-> <<"Subst">>, score |-> 1, ystart |-> 7, yend |-> 8, ylen |-> 9, xend |-> 1]
AlnInputs == {Alignment_default, Alignment_used}

NoArg == <<>>
NoOps == <<>>
NoAln == Alignment_default
Ret(call, arg, val, ops, aln) ==
    [call |-> call, arg |-> arg, val |-> val, ops |-> ops, aln |-> aln]

\* The calls that advance an iterator.  A query leaves the iterator and the
\* engine unchanged and overwrites ret, so the state after a query does not
\* depend on the queries made before it: the queries are taken from the
\* states an advance (or the construction) has left.
AdvanceCalls ==
    {"new", "Matches::next", "next_end", "FullMatches::next", "next_path",
     "next_path_reverse", "next_alignment", "LazyMatches::next"}
AfterAdvance == ret.call \in AdvanceCalls

\* ---------------------------------------------------------------- actions
InitInputs ==
    /\ pattern \in Patterns
    /\ text \in Texts
    /\ max_dist \in 0 .. MaxK
    /\ ret = Ret("new", NoArg, None, NoOps, NoAln)
    /\ yielded = <<>>
    /\ exhausted = FALSE
    /\ myers = None
    /\ scans = <<>>
    /\ searches = 1
    /\ column = None

\* find_all_end(text, max_dist) on a new engine
InitMatches ==
    /\ InitInputs
    /\ handle = "Matches"
    /\ matches = find_all_end(pattern, max_dist)
    /\ full = None
    /\ lazy = None

\* find_all(text, max_dist) on a new engine (its history buffer is empty)
InitFullMatches ==
    /\ InitInputs
    /\ handle = "FullMatches"
    /\ matches = None
    /\ full = find_all(pattern, <<>>, Len(text), max_dist)
    /\ lazy = None

\* find_all_lazy(text, max_dist) on a new engine
InitLazyMatches ==
    /\ InitInputs
    /\ handle = "LazyMatches"
    /\ matches = None
    /\ full = None
    /\ lazy = find_all_lazy(pattern, <<>>, Len(text), max_dist)

\* ---- the eager protocol and the whole-text functions
MatchesNext ==
    /\ handle = "Matches"
    /\ \E r \in {Matches_next(pattern, text, matches)} :
          /\ matches' = r.self
          /\ ret' = Ret("Matches::next", NoArg, r.ret, NoOps, NoAln)
          /\ yielded' = IF r.ret = None THEN yielded ELSE Append(yielded, r.ret[1])
          /\ exhausted' = (exhausted \/ r.ret = None)
    /\ UNCHANGED <<column, myers, scans, searches, pattern, text, max_dist, handle, full, lazy>>

Distance ==
    /\ handle = "Matches"
    /\ AfterAdvance
    /\ ret' = Ret("distance", NoArg, distance(pattern, text), NoOps, NoAln)
    /\ UNCHANGED <<column, myers, scans, searches, pattern, text, max_dist, handle, matches, full, lazy, yielded, exhausted>>

FindBestEnd ==
    /\ handle = "Matches"
    /\ AfterAdvance
    /\ ret' = Ret("find_best_end", NoArg, find_best_end(pattern, text), NoOps, NoAln)
    /\ UNCHANGED <<column, myers, scans, searches, pattern, text, max_dist, handle, matches, full, lazy, yielded, exhausted>>

\* ---- the full protocol: advances.  yielded logs (end, distance) of each
\* match, end being the inclusive end position.
YieldRange(r) ==
    IF r = None \/ r = Panic THEN yielded ELSE Append(yielded, <<r[1][2] - 1, r[1][3]>>)

FullNextEnd ==
    /\ handle = "FullMatches"
    /\ \E r \in {next_end(pattern, text, full)} :
          /\ full' = r.self
          /\ ret' = Ret("next_end", NoArg, r.ret, NoOps, NoAln)
          /\ yielded' = IF r.ret = None THEN yielded ELSE Append(yielded, r.ret[1])
          /\ exhausted' = (exhausted \/ r.ret = None)
    /\ UNCHANGED <<column, myers, scans, searches, pattern, text, max_dist, handle, matches, lazy>>

FullNext ==
    /\ handle = "FullMatches"
    /\ \E r \in {FullMatches_next(pattern, text, full)} :
          /\ full' = r.self
          /\ ret' = Ret("FullMatches::next", NoArg, r.ret, NoOps, NoAln)
          /\ yielded' = YieldRange(r.ret)
          /\ exhausted' = (exhausted \/ r.ret = None)
    /\ UNCHANGED <<column, myers, scans, searches, pattern, text, max_dist, handle, matches, lazy>>

FullNextPath ==
    /\ handle = "FullMatches"
    /\ \E v \in OpsInputs :
          \E r \in {next_path(pattern, text, full, v)} :
             /\ full' = r.self
             /\ ret' = Ret("next_path", v, r.ret, r.ops, NoAln)
             /\ yielded' = YieldRange(r.ret)
             /\ exhausted' = (exhausted \/ r.ret = None)
    /\ UNCHANGED <<column, myers, scans, searches, pattern, text, max_dist, handle, matches, lazy>>

FullNextPathReverse ==
    /\ handle = "FullMatches"
    /\ \E v \in OpsInputs :
          \E r \in {next_path_reverse(pattern, text, full, v)} :
             /\ full' = r.self
             /\ ret' = Ret("next_path_reverse", v, r.ret, r.ops, NoAln)
             /\ yielded' = YieldRange(r.ret)
             /\ exhausted' = (exhausted \/ r.ret = None)
    /\ UNCHANGED <<column, myers, scans, searches, pattern, text, max_dist, handle, matches, lazy>>

FullNextAlignment ==
    /\ handle = "FullMatches"
    /\ \E a \in AlnInputs :
          \E r \in {next_alignment(pattern, text, full, a)} :
             /\ full' = r.self
             /\ ret' = Ret("next_alignment", a, r.ret, NoOps, r.aln)
             /\ yielded' = IF r.ret = TRUE
                           THEN Append(yielded, <<r.aln.yend - 1, r.aln.score>>)
                           ELSE yielded
             /\ exhausted' = (exhausted \/ r.ret = FALSE)
    /\ UNCHANGED <<column, myers, scans, searches, pattern, text, max_dist, handle, matches, lazy>>

\* ---- the full protocol: queries on the current match
FullStart ==
    /\ handle = "FullMatches"
    /\ AfterAdvance
    /\ ret' = Ret("start", NoArg, start(full), NoOps, NoAln)
    /\ UNCHANGED <<column, myers, scans, searches, pattern, text, max_dist, handle, matches, full, lazy, yielded, exhausted>>

FullPath ==
    /\ handle = "FullMatches"
    /\ AfterAdvance
    /\ \E v \in OpsInputs :
          \E r \in {path(full, v)} : ret' = Ret("path", v, r.ret, r.ops, NoAln)
    /\ UNCHANGED <<column, myers, scans, searches, pattern, text, max_dist, handle, matches, full, lazy, yielded, exhausted>>

FullPathReverse ==
    /\ handle = "FullMatches"
    /\ AfterAdvance
    /\ \E v \in OpsInputs :
          \E r \in {path_reverse(full, v)} :
             ret' = Ret("path_reverse", v, r.ret, r.ops, NoAln)
    /\ UNCHANGED <<column, myers, scans, searches, pattern, text, max_dist, handle, matches, full, lazy, yielded, exhausted>>

FullAlignment ==
    /\ handle = "FullMatches"
    /\ AfterAdvance
    /\ \E a \in AlnInputs :
          \E r \in {alignment(full, a)} :
             ret' = Ret("alignment", a, r.ret, NoOps, r.aln)
    /\ UNCHANGED <<column, myers, scans, searches, pattern, text, max_dist, handle, matches, full, lazy, yielded, exhausted>>

\* ---- the lazy protocol
LazyNext ==
    /\ handle = "LazyMatches"
    /\ \E r \in {LazyMatches_next(pattern, text, lazy)} :
          /\ lazy' = r.self
          /\ ret' = Ret("LazyMatches::next", NoArg, r.ret, NoOps, NoAln)
          /\ yielded' = IF r.ret = None THEN yielded ELSE Append(yielded, r.ret[1])
          /\ exhausted' = (exhausted \/ r.ret = None)
    /\ UNCHANGED <<column, myers, scans, searches, pattern, text, max_dist, handle, matches, full>>

\* End positions a caller asks for: those of the text and one past it.
EndPositions == 0 .. Len(text)

LazyDistAt ==
    /\ handle = "LazyMatches"
    /\ AfterAdvance
    /\ \E e \in EndPositions :
          ret' = Ret("dist_at", <<e>>, dist_at(lazy, e), NoOps, NoAln)
    /\ UNCHANGED <<column, myers, scans, searches, pattern, text, max_dist, handle, matches, full, lazy, yielded, exhausted>>

LazyHitAt ==
    /\ handle = "LazyMatches"
    /\ AfterAdvance
    /\ \E e \in EndPositions :
          ret' = Ret("hit_at", <<e>>, hit_at(lazy, e), NoOps, NoAln)
    /\ UNCHANGED <<column, myers, scans, searches, pattern, text, max_dist, handle, matches, full, lazy, yielded, exhausted>>

LazyPathAt ==
    /\ handle = "LazyMatches"
    /\ AfterAdvance
    /\ \E e \in EndPositions, v \in OpsInputs :
          \E r \in {path_at(lazy, e, v)} :
             ret' = Ret("path_at", <<e, v>>, r.ret, r.ops, NoAln)
    /\ UNCHANGED <<column, myers, scans, searches, pattern, text, max_dist, handle, matches, full, lazy, yielded, exhausted>>

LazyPathAtReverse ==
    /\ handle = "LazyMatches"
    /\ AfterAdvance
    /\ \E e \in EndPositions, v \in OpsInputs :
          \E r \in {path_at_reverse(lazy, e, v)} :
             ret' = Ret("path_at_reverse", <<e, v>>, r.ret, r.ops, NoAln)
    /\ UNCHANGED <<column, myers, scans, searches, pattern, text, max_dist, handle, matches, full, lazy, yielded, exhausted>>

LazyAlignmentAt ==
    /\ handle = "LazyMatches"
    /\ AfterAdvance
    /\ \E e \in EndPositions, a \in AlnInputs :
          \E r \in {alignment_at(lazy, e, a)} :
             ret' = Ret("alignment_at", <<e, a>>, r.ret, NoOps, r.aln)
    /\ UNCHANGED <<column, myers, scans, searches, pattern, text, max_dist, handle, matches, full, lazy, yielded, exhausted>>

NextMatches == MatchesNext \/ Distance \/ FindBestEnd

NextFullMatches ==
    \/ FullNextEnd \/ FullNext \/ FullNextPath \/ FullNextPathReverse \/ FullNextAlignment
    \/ FullStart \/ FullPath \/ FullPathReverse \/ FullAlignment

NextLazyMatches ==
    \/ LazyNext \/ LazyDistAt \/ LazyHitAt \/ LazyPathAt \/ LazyPathAtReverse
    \/ LazyAlignmentAt

\* One search per behaviour: the eager, the full or the lazy protocol.
SpecMatches == InitMatches /\ [][NextMatches]_vars
SpecFullMatches == InitFullMatches /\ [][NextFullMatches]_vars
SpecLazyMatches == InitLazyMatches /\ [][NextLazyMatches]_vars
\* A stateful search of either kind.
SpecStateful ==
    (InitFullMatches \/ InitLazyMatches) /\ [][NextFullMatches \/ NextLazyMatches]_vars

\* ---- one engine, several stateful searches one after another
\* The history buffer of the engine that the iterator in progress holds.
EngineHistory ==
    IF handle = "FullMatches" THEN full.states_store ELSE lazy.states_store

\* Texts of a later search on the engine, given the text t of the search
\* before it: the same text, the text with every symbol changed and the
\* text without its first symbol.
LaterTexts(t) ==
    {t, [i \in 1 .. Len(t) |-> 1 - t[i]], IF t = <<>> THEN t ELSE Tail(t)}

\* The iterator is released, after any number of advances, and find_all is
\* called on the same engine with another text and max_dist.
FindAllAgain ==
    /\ handle \in {"FullMatches", "LazyMatches"}
    /\ searches < MaxSearches
    /\ \E t \in LaterTexts(text), k \in 0 .. MaxK :
          /\ text' = t
          /\ max_dist' = k
          /\ full' = find_all(pattern, EngineHistory, Len(t), k)
    /\ handle' = "FullMatches"
    /\ lazy' = None
    /\ ret' = Ret("new", NoArg, None, NoOps, NoAln)
    /\ yielded' = <<>>
    /\ exhausted' = FALSE
    /\ searches' = searches + 1
    /\ UNCHANGED <<column, myers, scans, pattern, matches>>

\* The same with find_all_lazy.
FindAllLazyAgain ==
    /\ handle \in {"FullMatches", "LazyMatches"}
    /\ searches < MaxSearches
    /\ \E t \in LaterTexts(text), k \in 0 .. MaxK :
          /\ text' = t
          /\ max_dist' = k
          /\ lazy' = find_all_lazy(pattern, EngineHistory, Len(t), k)
    /\ handle' = "LazyMatches"
    /\ full' = None
    /\ ret' = Ret("new", NoArg, None, NoOps, NoAln)
    /\ yielded' = <<>>
    /\ exhausted' = FALSE
    /\ searches' = searches + 1
    /\ UNCHANGED <<column, myers, scans, pattern, matches>>

NextReuse == FullNextEnd \/ LazyNext \/ FindAllAgain \/ FindAllLazyAgain

\* Stateful searches on one engine, each started when the one before is
\* released.
SpecReuse == (InitFullMatches \/ InitLazyMatches) /\ [][NextReuse]_vars

\* ---- one engine, two Matches iterators advanced in any interleaving
\* The names of the two scans.
ScanIds == {"a", "b"}

\* The engine as the scans see it through their shared reference: the
\* pattern length and the history buffer (the equality table is pattern).
Myers_new(pat) == [m |-> Len(pat), states_store |-> <<>>]

\* find_all_end(text, max_dist) called twice on one engine, with two
\* distinct texts: any text for a, and for b that text with every symbol
\* changed or without its first symbol.
InitScans ==
    /\ pattern \in Patterns
    /\ max_dist \in 0 .. MaxK
    /\ myers = Myers_new(pattern)
    /\ \E ta \in Texts :
       \E tb \in LaterTexts(ta) \ {ta} :
          /\ scans = [id \in ScanIds |->
                         [text |-> IF id = "a" THEN ta ELSE tb,
                          it |-> find_all_end(pattern, max_dist),
                          yielded |-> <<>>,
                          exhausted |-> FALSE]]
    /\ handle = "Scans"
    /\ text = <<>>
    /\ matches = None
    /\ full = None
    /\ lazy = None
    /\ ret = Ret("new", NoArg, None, NoOps, NoAln)
    /\ yielded = <<>>
    /\ exhausted = FALSE
    /\ searches = 0
    /\ column = None

\* Matches::next on scan id: the iterator holds the engine by a shared
\* reference and owns its column state.
ScanNext_state_in_engine(id) ==
    /\ handle = "Scans"
    /\ \E r \in {Matches_next(pattern, scans[id].text, scans[id].it)} :
          /\ scans' = [i \in ScanIds |->
                          IF i = id
                          THEN [scans[i] EXCEPT
                                   !.it = r.self,
                                   !.yielded = IF r.ret = None THEN @ ELSE Append(@, r.ret[1]),
                                   !.exhausted = (@ \/ r.ret = None)]
                          ELSE [scans[i] EXCEPT !.it.state = r.self.state]]
          /\ ret' = Ret("Matches::next", <<id>>, r.ret, NoOps, NoAln)
    /\ UNCHANGED <<column, myers, searches, pattern, text, max_dist, handle, matches, full, lazy,
                   yielded, exhausted>>
ScanNext(id) ==
    /\ handle = "Scans"
    /\ \E r \in {Matches_next(pattern, scans[id].text, scans[id].it)} :
          /\ scans' = [scans EXCEPT
                          ![id].it = r.self,
                          ![id].yielded = IF r.ret = None THEN @ ELSE Append(@, r.ret[1]),
                          ![id].exhausted = (@ \/ r.ret = None)]
          /\ ret' = Ret("Matches::next", <<id>>, r.ret, NoOps, NoAln)
    /\ UNCHANGED <<column, myers, searches, pattern, text, max_dist, handle, matches, full, lazy,
                   yielded, exhausted>>

NextScans == \E id \in ScanIds : ScanNext(id)

\* Two eager scans over distinct texts against one engine.
SpecScans == InitScans /\ [][NextScans]_vars

\* ---- searches with max_dist at and above the ceiling
\* max_dist arguments at the ceiling $max_dist and one above it (the
\* distance type can be wider than the ceiling the macro is given).
CeilingInputs == {DistMax, DistMax + 1}

\* find_all_end, find_all or find_all_lazy on a new engine with such a
\* max_dist.
InitCeiling ==
    /\ pattern \in Patterns
    /\ text \in Texts
    /\ max_dist \in CeilingInputs
    /\ handle \in {"Matches", "FullMatches", "LazyMatches"}
    /\ matches = IF handle = "Matches" THEN find_all_end(pattern, max_dist) ELSE None
    /\ full = IF handle = "FullMatches"
              THEN find_all(pattern, <<>>, Len(text), max_dist) ELSE None
    /\ lazy = IF handle = "LazyMatches"
              THEN find_all_lazy(pattern, <<>>, Len(text), max_dist) ELSE None
    /\ ret = Ret("new", NoArg, None, NoOps, NoAln)
    /\ yielded = <<>>
    /\ exhausted = FALSE
    /\ myers = None
    /\ scans = <<>>
    /\ searches = 1
    /\ column = None

NextCeiling == MatchesNext \/ FullNextEnd \/ FullNext \/ LazyNext

SpecCeiling == InitCeiling /\ [][NextCeiling]_vars

\* ---- a column stepped over any sequence of symbols
\* The initial column of a pattern, with the reference column D[i][0] = i.
InitColumn ==
    /\ pattern \in Patterns
    /\ max_dist \in 0 .. MaxK
    /\ column = [state |-> initial_state(Len(pattern), max_dist),
                 ref |-> RefCol(pattern, <<>>, 0)]
    /\ handle = "Column"
    /\ text = <<>>
    /\ matches = None
    /\ full = None
    /\ lazy = None
    /\ ret = Ret("new", NoArg, None, NoOps, NoAln)
    /\ yielded = <<>>
    /\ exhausted = FALSE
    /\ myers = None
    /\ scans = <<>>
    /\ searches = 0

\* Myers::step on the column with the next symbol.
StepColumn ==
    /\ handle = "Column"
    /\ \E a \in Sigma :
          /\ column' = [state |-> step(pattern, column.state, a, max_dist),
                        ref |-> RefColUpTo(pattern, column.ref, a, Len(pattern))]
          /\ ret' = Ret("step", <<a>>, None, NoOps, NoAln)
    /\ UNCHANGED <<myers, scans, searches, pattern, text, max_dist, handle, matches, full,
                   lazy, yielded, exhausted>>

\* State::adjust_up_by on a copy of the column, with the mask of the n rows
\* directly above row m.
AdjustUpBy ==
    /\ handle = "Column"
    /\ ret.call \in {"new", "step"}
    /\ \E n \in 1 .. Len(pattern) :
          ret' = Ret("adjust_up_by", <<n>>,
                     adjust_up_by(column.state, RangeMask(Len(pattern), n)), NoOps, NoAln)
    /\ UNCHANGED <<column, myers, scans, searches, pattern, text, max_dist, handle,
                   matches, full, lazy, yielded, exhausted>>

\* State::adjust_one_up on a copy of the column, with the bit of row m - 1.
AdjustOneUp ==
    /\ handle = "Column"
    /\ ret.call \in {"new", "step"}
    /\ ret' = Ret("adjust_one_up", NoArg,
                  adjust_one_up(column.state, {Len(pattern) - 1}), NoOps, NoAln)
    /\ UNCHANGED <<column, myers, scans, searches, pattern, text, max_dist, handle,
                   matches, full, lazy, yielded, exhausted>>

NextColumn == StepColumn \/ AdjustUpBy \/ AdjustOneUp

SpecColumn == InitColumn /\ [][NextColumn]_vars

\* ----------------------------------------------------------------- claims
\* The end positions at which the reference DP distance is within k, with
\* their distances, for the text positions 0 .. n-1, in increasing order.
RECURSIVE RefMatchesUpTo(_, _, _, _)
RefMatchesUpTo(pat, txt, k, n) ==
    IF n = 0 THEN <<>>
    ELSE LET before == RefMatchesUpTo(pat, txt, k, n - 1)
             d == RefDist(pat, txt, n - 1)
         IN IF d <= k THEN Append(before, <<n - 1, d>>) ELSE before

\* Smallest reference distance over the end positions 0 .. n-1 of the text,
\* the DP column of the empty prefix (distance m) included.
RECURSIVE RefMinDist(_, _, _)
RefMinDist(pat, txt, n) ==
    IF n = 0 THEN Len(pat)
    ELSE Min2(RefMinDist(pat, txt, n - 1), RefDist(pat, txt, n - 1))

\* C1: every (end, distance) that find_all_end has yielded has
\* distance <= max_dist, and distance is the reference DP distance of the
\* pattern against a substring of the text ending at end.
C1_EndOnlySound ==
    handle = "Matches" =>
        \A n \in 1 .. Len(yielded) :
            /\ yielded[n][1] \in 0 .. (Len(text) - 1)
            /\ yielded[n][2] <= max_dist
            /\ yielded[n][2] = RefDist(pattern, text, yielded[n][1])

C1_Witness ==
    /\ handle = "Matches"
    /\ Len(yielded) >= 2
    /\ yielded[2][2] = 1
    /\ ret.call = "Matches::next"
    /\ ret.val = Some(yielded[2])

\* C2: find_all_end is complete: what the iterator has yielded after
\* consuming n symbols is exactly the list of the end positions below n
\* whose reference distance is <= max_dist, in increasing order, and the
\* iterator returns None only when the whole text is consumed.
C2_EndOnlyComplete ==
    handle = "Matches" =>
        /\ yielded = RefMatchesUpTo(pattern, text, max_dist, matches.text)
        /\ (ret.call = "Matches::next" /\ ret.val = None => matches.text = Len(text))

C2_Witness ==
    /\ handle = "Matches"
    /\ ret.call = "Matches::next"
    /\ ret.val = None
    /\ Len(yielded) >= 2
    /\ Len(yielded) < Len(text)

\* C3: distance(text) is the minimum of the reference DP distance over all
\* end positions, for every text, the empty text included.
C3_DistanceIsRefMin ==
    ret.call = "distance" => ret.val = RefMinDist(pattern, text, Len(text))

\* C3, on the texts with at least one symbol.
C3_DistanceNonEmpty ==
    ret.call = "distance" /\ text # <<>> =>
        ret.val = RefMinDist(pattern, text, Len(text))

\* C4: on a non-empty text find_best_end returns the smallest reference
\* distance over all end positions, at the smallest end position that
\* attains it.
C4_BestEndFirstMin ==
    ret.call = "find_best_end" /\ text # <<>> =>
        /\ ret.val[1] \in 0 .. (Len(text) - 1)
        /\ ret.val[2] = RefDist(pattern, text, ret.val[1])
        /\ \A e \in 0 .. (Len(text) - 1) :
              /\ RefDist(pattern, text, e) >= ret.val[2]
              /\ RefDist(pattern, text, e) = ret.val[2] => e >= ret.val[1]

C4_Witness ==
    /\ ret.call = "find_best_end"
    /\ text # <<>>
    /\ ret.val[2] < Len(pattern)
    /\ \E e \in 0 .. (Len(text) - 1) :
          e > ret.val[1] /\ RefDist(pattern, text, e) = ret.val[2]
    /\ \E e \in 0 .. (Len(text) - 1) :
          e < ret.val[1] /\ RefDist(pattern, text, e) > ret.val[2]

\* ---- the stateful protocols
FullQueries == {"start", "path", "path_reverse"}

\* C5: on a FullMatches handle that has not yielded a match yet, start(),
\* path() and path_reverse() return None, and alignment() returns false and
\* leaves the alignment as it was.
C5_NoMatchYetAbsent ==
    handle = "FullMatches" /\ yielded = <<>> =>
        /\ ret.call \in FullQueries => ret.val = None
        /\ ret.call = "alignment" => ret.val = FALSE /\ ret.aln = ret.arg

\* C6: once an advance of a FullMatches handle has returned None, start(),
\* path() and path_reverse() return None and alignment() returns false, on
\* every later call.
C6_ExhaustedAbsent ==
    handle = "FullMatches" /\ exhausted =>
        /\ ret.call \in FullQueries => ret.val = None
        /\ ret.call = "alignment" => ret.val = FALSE /\ ret.aln = ret.arg
        /\ start(full) = None
        /\ \A v \in OpsInputs :
              /\ path(full, v) = [ret |-> None, ops |-> v]
              /\ path_reverse(full, v) = [ret |-> None, ops |-> v]
        /\ \A a \in AlnInputs : alignment(full, a) = [ret |-> FALSE, aln |-> a]

C6_Witness ==
    /\ handle = "FullMatches"
    /\ exhausted
    /\ yielded # <<>>
    /\ ret.call = "path"
    /\ ret.arg # <<>>

\* Replaying a list of operations against the pattern from row i and the
\* text from position j: it consumes the whole pattern, ends at text
\* position end_excl, and every Match (Subst) pairs equal (unequal) symbols.
RECURSIVE Replays(_, _, _, _, _, _)
Replays(ops, pat, txt, i, j, end_excl) ==
    IF ops = <<>> THEN i = Len(pat) /\ j = end_excl
    ELSE IF Head(ops) = "Match"
    THEN /\ i < Len(pat) /\ j < end_excl /\ pat[i + 1] = txt[j + 1]
         /\ Replays(Tail(ops), pat, txt, i + 1, j + 1, end_excl)
    ELSE IF Head(ops) = "Subst"
    THEN /\ i < Len(pat) /\ j < end_excl /\ pat[i + 1] # txt[j + 1]
         /\ Replays(Tail(ops), pat, txt, i + 1, j + 1, end_excl)
    ELSE IF Head(ops) = "Ins"
    THEN i < Len(pat) /\ Replays(Tail(ops), pat, txt, i + 1, j, end_excl)
    ELSE IF Head(ops) = "Del"
    THEN j < end_excl /\ Replays(Tail(ops), pat, txt, i, j + 1, end_excl)
    ELSE FALSE

NonMatches(ops) == Cardinality({n \in 1 .. Len(ops) : ops[n] # "Match"})

\* C7: for every (start, end, distance) that next_path yields, replaying
\* the operations it left in the vector against the pattern reproduces
\* text[start:end] (end exclusive) and consumes the whole pattern, with
\* exactly distance operations that are not a Match.
C7_PathReplays ==
    ret.call = "next_path" /\ ret.val # None =>
        /\ 0 <= ret.val[1][1] /\ ret.val[1][1] <= ret.val[1][2]
        /\ ret.val[1][2] <= Len(text)
        /\ Replays(ret.ops, pattern, text, 0, ret.val[1][1], ret.val[1][2])
        /\ NonMatches(ret.ops) = ret.val[1][3]

C7_Witness ==
    /\ ret.call = "next_path"
    /\ ret.val # None
    /\ ret.arg # <<>>
    /\ ret.val[1][1] > 0
    /\ ret.val[1][3] = 1
    /\ Len(ret.ops) >= 2
    /\ ret.ops[1] = "Match"
    /\ ret.ops[2] \in {"Ins", "Del"}

\* C8: for the same match the forward query (path, path_at) leaves the
\* exact reverse of what the reverse query (path_reverse, path_at_reverse)
\* leaves, both return the same value, and nothing of what the vector held
\* before the call is in the result.
C8_ForwardIsReverse ==
    /\ handle = "FullMatches" =>
          \A v \in OpsInputs, w \in OpsInputs :
              /\ path(full, v).ret = path_reverse(full, w).ret
              /\ path(full, v).ret # None =>
                    path(full, v).ops = Reverse(path_reverse(full, w).ops)
    /\ handle = "LazyMatches" =>
          \A e \in EndPositions, v \in OpsInputs, w \in OpsInputs :
              /\ path_at(lazy, e, v).ret = path_at_reverse(lazy, e, w).ret
              /\ path_at(lazy, e, v).ret # None =>
                    path_at(lazy, e, v).ops = Reverse(path_at_reverse(lazy, e, w).ops)

\* C8 for FullMatches alone (path and path_reverse clear the vector).
C8_FullForwardIsReverse ==
    handle = "FullMatches" =>
        \A v \in OpsInputs, w \in OpsInputs :
            /\ path(full, v).ret = path_reverse(full, w).ret
            /\ path(full, v).ret # None =>
                  path(full, v).ops = Reverse(path_reverse(full, w).ops)

\* The FullMatches handle of the same search advanced with next_end until
\* it yields the match ending at e (None if it never does).
RECURSIVE FullUntil(_, _, _, _)
FullUntil(pat, txt, self, e) ==
    The({IF r.ret = None THEN None
         ELSE IF r.ret[1][1] = e THEN Some([self |-> r.self, dist |-> r.ret[1][2]])
         ELSE FullUntil(pat, txt, r.self, e)
         : r \in {next_end(pat, txt, self)}})

\* C9: for an end position e that the search has yielded as a match,
\* hit_at(e) on the lazy handle, at any time after e was scanned, is
\* (start, distance) as FullMatches reports them (start() and the yielded
\* distance) when e is its most recently yielded match.
C9_LazyHitIsFullStart ==
    handle = "LazyMatches" /\ ret.call = "hit_at"
    /\ (\E n \in 1 .. Len(yielded) : yielded[n][1] = ret.arg[1]) =>
        \E f \in {FullUntil(pattern, text,
                            find_all(pattern, <<>>, Len(text), max_dist), ret.arg[1])} :
            /\ f # None
            /\ start(f[1].self) # None
            /\ ret.val = Some(<<start(f[1].self)[1], f[1].dist>>)

C9_Witness ==
    /\ handle = "LazyMatches"
    /\ ret.call = "hit_at"
    /\ exhausted
    /\ Len(yielded) >= 2
    /\ yielded[1][1] = ret.arg[1]
    /\ ret.val # None
    /\ ret.val[1][1] > 0
    /\ ret.val[1][2] > 0

\* What find_all_end yields for the same pattern, text and max_dist, cut to
\* the end positions below n.
EagerUpTo(n) ==
    SelectSeq(Matches_collect(pattern, text, find_all_end(pattern, max_dist)),
              LAMBDA item : item[1] < n)

\* C10: the stateful iterators yield the matches of find_all_end, in the
\* same order: after consuming n symbols FullMatches (next_end, next,
\* next_path, ...) and LazyMatches have yielded exactly the (end, distance)
\* pairs find_all_end yields below n, find_all yielding each as
\* (start, end + 1, distance); they return None only at the end of the text.
C10_SameSequence ==
    /\ handle = "FullMatches" =>
          /\ yielded = EagerUpTo(full.text)
          /\ exhausted => full.text = Len(text)
          /\ ret.call = "FullMatches::next" /\ ret.val # None =>
                /\ ret.val[1][1] = start(full)[1]
                /\ <<ret.val[1][2], ret.val[1][3]>> =
                      <<yielded[Len(yielded)][1] + 1, yielded[Len(yielded)][2]>>
    /\ handle = "LazyMatches" =>
          /\ yielded = EagerUpTo(lazy.text)
          /\ exhausted => lazy.text = Len(text)

C10_Witness ==
    /\ handle = "FullMatches"
    /\ ret.call = "FullMatches::next"
    /\ ret.val = None
    /\ Len(yielded) >= 2
    /\ Len(yielded) < Len(text)

\* ---- the lazy protocol: queries by end position
LazyQueries == {"dist_at", "hit_at", "path_at", "path_at_reverse", "alignment_at"}

\* The by-position queries at an end position that is not scanned yet.
C11_AbsentAt(e) ==
    /\ dist_at(lazy, e) = None
    /\ hit_at(lazy, e) = None
    /\ \A v \in OpsInputs :
          /\ path_at(lazy, e, v) = [ret |-> None, ops |-> v]
          /\ path_at_reverse(lazy, e, v) = [ret |-> None, ops |-> v]
    /\ \A a \in AlnInputs : alignment_at(lazy, e, a).ret = FALSE

\* C11: on a LazyMatches handle dist_at(e), hit_at(e), path_at(e) and
\* path_at_reverse(e) return None and alignment_at(e) returns false for
\* every end position e that is not scanned yet (e >= the number of symbols
\* consumed, the positions at and past the end of the text included), and
\* such a call leaves the iterator, its engine and what it has yielded as
\* they were.
C11_UnscannedAbsent ==
    /\ [](handle = "LazyMatches" =>
            /\ \A e \in EndPositions : e >= lazy.text => C11_AbsentAt(e)
            /\ ret.call \in LazyQueries /\ ret.arg[1] >= lazy.text =>
                  IF ret.call = "alignment_at" THEN ret.val = FALSE
                  ELSE ret.val = None)
    /\ [][ret'.call \in LazyQueries /\ ret'.arg[1] >= lazy.text =>
             lazy' = lazy /\ yielded' = yielded /\ exhausted' = exhausted]_vars

C11_Witness ==
    /\ handle = "LazyMatches"
    /\ ret.call = "alignment_at"
    /\ lazy.text >= 1
    /\ ret.arg[1] >= lazy.text
    /\ ret.arg[1] < Len(text)
    /\ ret.arg[2] = Alignment_used
    /\ ret.val = FALSE

\* C12: after k symbols are scanned, dist_at(e), hit_at(e), path_at(e) and
\* alignment_at(e) succeed for every end position e < k, the latest or an
\* earlier one, whether or not the distance at e is within max_dist, and the
\* distance they report is the reference DP distance ending at e: no
\* scanned column is evicted during the search.
C12_ScannedKnown ==
    handle = "LazyMatches" =>
        \A e \in 0 .. (lazy.text - 1) :
            /\ dist_at(lazy, e) = Some(RefDist(pattern, text, e))
            /\ \E h \in {hit_at(lazy, e)} :
                  /\ h # None
                  /\ h[1][1] \in 0 .. (e + 1)
                  /\ h[1][2] = RefDist(pattern, text, e)
                  /\ path_at(lazy, e, <<>>).ret = h
            /\ \A a \in AlnInputs :
                  \E r \in {alignment_at(lazy, e, a)} :
                      r.ret = TRUE /\ r.aln.score = RefDist(pattern, text, e)

C12_Witness ==
    /\ handle = "LazyMatches"
    /\ ret.call = "alignment_at"
    /\ ret.val = TRUE
    /\ ret.arg[1] + 1 < lazy.text
    /\ ret.aln.score > max_dist
    /\ ret.aln.score = RefDist(pattern, text, ret.arg[1])
    /\ Len(pattern) >= 2

\* C13: next_alignment(aln) returns true exactly when the advance
\* (next_end) finds a next match, and aln then holds that match: its end
\* (yend = end + 1), its start, its distance as the score and its path,
\* which replays the pattern onto text[ystart:yend] with score operations
\* that are not a Match; when no next match is found it returns false and
\* aln (score, positions and operations) is as the caller passed it.
C13_NextAlignment ==
    [][ret'.call = "next_alignment" =>
          \E r \in {next_end(pattern, text, full)} :
              /\ ret'.val = (r.ret # None)
              /\ full' = r.self
              /\ r.ret = None => ret'.aln = ret'.arg
              /\ r.ret # None =>
                    /\ ret'.aln.yend = r.ret[1][1] + 1
                    /\ ret'.aln.score = r.ret[1][2]
                    /\ ret'.aln.score = RefDist(pattern, text, r.ret[1][1])
                    /\ ret'.aln.ystart = start(r.self)[1]
                    /\ ret'.aln.ylen = Len(text)
                    /\ ret'.aln.xend = Len(pattern)
                    /\ ret'.aln.operations = path(r.self, <<>>).ops
                    /\ Replays(ret'.aln.operations, pattern, text, 0,
                               ret'.aln.ystart, ret'.aln.yend)
                    /\ NonMatches(ret'.aln.operations) = ret'.aln.score]_vars

C13_Witness ==
    /\ handle = "FullMatches"
    /\ ret.call = "next_alignment"
    /\ ret.val = TRUE
    /\ ret.arg = Alignment_used
    /\ ret.aln.score = 1
    /\ ret.aln.ystart > 0
    /\ Len(ret.aln.operations) >= 2
    /\ Len(yielded) >= 2

\* next_alignment has returned false on an alignment that was in use.
C13_WitnessNoHit ==
    /\ handle = "FullMatches"
    /\ ret.call = "next_alignment"
    /\ ret.val = FALSE
    /\ ret.arg = Alignment_used
    /\ yielded # <<>>

\* The FullMatches handle of the same search on a new engine, advanced to
\* the point where it has consumed n symbols (fin: and has returned None).
RECURSIVE FreshFullFrom(_, _, _)
FreshFullFrom(self, n, fin) ==
    IF (self.text = n /\ self.unsuccessfully_finished = fin) \/ self.unsuccessfully_finished
    THEN self
    ELSE FreshFullFrom(next_end(pattern, text, self).self, n, fin)

FreshFull ==
    FreshFullFrom(find_all(pattern, <<>>, Len(text), max_dist), full.text,
                  full.unsuccessfully_finished)

\* The LazyMatches handle of the same search on a new engine, advanced to
\* the point where it has consumed n symbols.
RECURSIVE FreshLazyFrom(_, _)
FreshLazyFrom(self, n) ==
    IF self.text >= n THEN self
    ELSE FreshLazyFrom(LazyMatches_next(pattern, text, self).self, n)

FreshLazy == FreshLazyFrom(find_all_lazy(pattern, <<>>, Len(text), max_dist), lazy.text)

\* C14: a stateful search on an engine that an earlier stateful search has
\* used (completed or released after any number of advances) gives, at
\* every point, the matches, start positions, paths, alignments and
\* by-position query results of the same search on a new engine: they
\* depend on (pattern, text, max_dist) only, not on the history left in the
\* engine's buffer.
C14_ReuseIsFresh ==
    /\ handle = "FullMatches" =>
          \E f \in {FreshFull} :
              /\ f.text = full.text /\ f.pos = full.pos
              /\ start(full) = start(f)
              /\ path(full, <<>>) = path(f, <<>>)
              /\ path_reverse(full, <<"Subst", "Del">>) = path_reverse(f, <<"Subst", "Del">>)
              /\ alignment(full, Alignment_used) = alignment(f, Alignment_used)
              /\ next_end(pattern, text, full).ret = next_end(pattern, text, f).ret
    /\ handle = "LazyMatches" =>
          \E f \in {FreshLazy} :
              /\ f.text = lazy.text
              /\ LazyMatches_next(pattern, text, lazy).ret = LazyMatches_next(pattern, text, f).ret
              /\ \A e \in EndPositions :
                    /\ dist_at(lazy, e) = dist_at(f, e)
                    /\ hit_at(lazy, e) = hit_at(f, e)
                    /\ path_at(lazy, e, <<>>) = path_at(f, e, <<>>)
                    /\ alignment_at(lazy, e, Alignment_used) =
                          alignment_at(f, e, Alignment_used)

\* A second search on the engine has yielded a match with a path of two or
\* more columns while the buffer still holds columns of the first search.
C14_Witness ==
    /\ handle = "FullMatches"
    /\ searches = 2
    /\ full.states_store # FreshFull.states_store
    /\ ret.call = "next_end"
    /\ ret.val # None
    /\ ret.val[1][1] + 1 - start(full)[1] >= 2
    /\ Len(yielded) >= 2

\* The Matches iterator of a scan run alone over txt, advanced until it has
\* consumed n symbols.
RECURSIVE AloneFrom(_, _, _)
AloneFrom(txt, self, n) ==
    IF self.text >= n THEN self
    ELSE AloneFrom(txt, Matches_next(pattern, txt, self).self, n)

\* What a scan run alone over txt yields at the end positions below n.
AloneUpTo(txt, n) ==
    SelectSeq(Matches_collect(pattern, txt, find_all_end(pattern, max_dist)),
              LAMBDA item : item[1] < n)

\* C15: two eager scans over distinct texts against one engine, advanced in
\* any interleaving, each yield the sequence they yield when run alone (the
\* end positions within max_dist by the reference DP), with the column
\* state of the scan run alone, and an advance of one scan leaves the
\* engine (pattern length, equality table, history buffer) and the other
\* scan as they were.
C15_ScansIndependent ==
    /\ [](handle = "Scans" =>
            \A id \in ScanIds :
                \E sc \in {scans[id]} :
                    /\ sc.yielded = AloneUpTo(sc.text, sc.it.text)
                    /\ sc.yielded = RefMatchesUpTo(pattern, sc.text, max_dist, sc.it.text)
                    /\ sc.it = AloneFrom(sc.text, find_all_end(pattern, max_dist), sc.it.text)
                    /\ sc.exhausted => sc.it.text = Len(sc.text))
    /\ [][handle = "Scans" =>
             /\ myers' = myers
             /\ pattern' = pattern
             /\ \A id \in ScanIds : ret'.arg # <<id>> => scans'[id] = scans[id]]_vars

C15_Witness ==
    /\ handle = "Scans"
    /\ ret.call = "Matches::next"
    /\ ret.arg = <<"a">>
    /\ ret.val # None
    /\ Len(scans["a"].yielded) >= 2
    /\ scans["a"].it.text < Len(scans["a"].text)
    /\ Len(scans["b"].yielded) >= 1
    /\ scans["b"].it.text < Len(scans["b"].text)
    /\ scans["a"].it.state # scans["b"].it.state

\* C16: find_all_end, find_all and find_all_lazy called with a max_dist
\* above the ceiling do not fail and behave as when called with the
\* ceiling itself: the iterator is, at every point, the iterator of the
\* search with max_dist = ceiling advanced equally far (so every query on
\* it gives the same result), and it has yielded what that search yields,
\* the end positions whose reference distance is within the ceiling.
C16_AboveCeilingCapped ==
    max_dist > DistMax =>
        /\ ret.val # Panic
        /\ handle = "Matches" =>
              /\ matches = AloneFrom(text, find_all_end(pattern, DistMax), matches.text)
              /\ yielded = RefMatchesUpTo(pattern, text, DistMax, matches.text)
        /\ handle = "FullMatches" =>
              /\ full = FreshFullFrom(find_all(pattern, <<>>, Len(text), DistMax),
                                      full.text, full.unsuccessfully_finished)
              /\ yielded = RefMatchesUpTo(pattern, text, DistMax, full.text)
        /\ handle = "LazyMatches" =>
              /\ lazy = FreshLazyFrom(find_all_lazy(pattern, <<>>, Len(text), DistMax),
                                      lazy.text)
              /\ yielded = RefMatchesUpTo(pattern, text, DistMax, lazy.text)

C16_Witness ==
    /\ max_dist > DistMax
    /\ handle = "Matches"
    /\ ret.call = "Matches::next"
    /\ ret.val # None
    /\ ret.val[1][2] > MaxK
    /\ Len(yielded) >= 2

\* C17: find_best_end on an empty text returns no (end, distance) pair and
\* no fallback value: the call panics (unwrap of an absent minimum), and the
\* engine and the iterators on it are left as they were.
C17_BestEndEmptyPanics ==
    /\ [](ret.call = "find_best_end" /\ text = <<>> => ret.val = Panic)
    /\ [][ret'.call = "find_best_end" =>
             /\ pattern' = pattern
             /\ myers' = myers
             /\ matches' = matches
             /\ yielded' = yielded]_vars

C17_Witness ==
    /\ ret.call = "find_best_end"
    /\ text = <<>>
    /\ ret.val = Panic
    /\ Len(pattern) >= 2

\* C18: in every column state reached from the initial state (pv all ones,
\* mv = 0, dist = m) by any sequence of steps over any symbols, no bit is
\* set in both pv and mv.
C18_PvMvExclusive ==
    handle = "Column" => column.state.pv \cap column.state.mv = {}

C18_Witness ==
    /\ handle = "Column"
    /\ ret.call = "step"
    /\ column.state.mv # {}
    /\ column.state.pv # {}
    /\ column.state.pv \cup column.state.mv # Rows
    /\ column.state.dist < Len(pattern)

\* C19: for every column state reached by steps, dist is the reference DP
\* value at row m of the column, and for every n in 1 .. m adjust_up_by
\* with the mask of the n rows directly above row m gives the reference
\* value at row m - n of the same column and leaves pv and mv as they are;
\* the sum and the difference it computes on the way stay within the
\* distance type.  For n = 1 adjust_one_up gives the same.
C19_AdjustUpByIsRef ==
    handle = "Column" =>
        \E st \in {column.state}, m \in {Len(pattern)} :
            /\ st.dist = column.ref[m + 1]
            /\ \A n \in 1 .. m :
                  \E mask \in {RangeMask(m, n)} :
                      /\ count_ones(mask) = n
                      /\ adjust_up_by(st, mask) = [st EXCEPT !.dist = column.ref[m - n + 1]]
                      /\ st.dist + count_ones(st.mv \cap mask) <= DistMax
                      /\ st.dist + count_ones(st.mv \cap mask)
                            - count_ones(st.pv \cap mask) >= 0
            /\ adjust_one_up(st, {m - 1}) = adjust_up_by(st, RangeMask(m, 1))

C19_Witness ==
    /\ handle = "Column"
    /\ ret.call = "adjust_up_by"
    /\ ret.arg[1] >= 2
    /\ column.state.mv \cap RangeMask(Len(pattern), ret.arg[1]) # {}
    /\ column.state.pv \cap RangeMask(Len(pattern), ret.arg[1]) # {}
    /\ ret.val.dist # column.state.dist
    /\ ret.val.dist = column.ref[Len(pattern) - ret.arg[1] + 1]

\* The columns that step produces for the symbols 1 .. k of the text, after
\* the initial column: <<column 0, column 1, ..., column k>>.
RECURSIVE ColumnsUpTo(_)
ColumnsUpTo(k) ==
    IF k = 0 THEN <<initial_state(Len(pattern), Min2(max_dist, DistMax))>>
    ELSE The({Append(cols, step(pattern, cols[k], text[k], Min2(max_dist, DistMax)))
              : cols \in {ColumnsUpTo(k - 1)}})

\* The last of the calls 1 .. k of add_state that wrote slot j of a store of
\* n slots, the i-th call writing slot (i + 1) % n; 0 if none did.
LastWriter(n, k, j) ==
    IF \E i \in 1 .. k : (i + 1) % n = j
    THEN CHOOSE i \in 1 .. k :
             /\ (i + 1) % n = j
             /\ \A h \in (i + 1) .. k : (h + 1) % n # j
    ELSE 0

\* The history of a store of n slots on a new engine after k calls of
\* add_state that carried the columns 1 .. k in this order; the slots no
\* call has written are as Traceback::new left them.
HistoryAfter(n, k) ==
    The({[j \in 1 .. n |->
             The({IF i > 0 THEN cols[i + 1]
                  ELSE IF j = 1 THEN init_max_dist
                  ELSE IF j = 2 THEN cols[1]
                  ELSE State_default
                  : i \in {LastWriter(n, k, j - 1)}})]
         : cols \in {ColumnsUpTo(k)}})

\* The stateful iterator in progress.
StatefulHandle == IF handle = "FullMatches" THEN full ELSE lazy

\* C20: in the full and the lazy protocol the history is appended once per
\* transition, after it: when the iterator has consumed k symbols (over
\* any advance calls, with or without matches) the store has taken exactly
\* k columns, the i-th being the column step produced for symbol i, and the
\* iterator's column is the k-th; a query (start, path, path_reverse,
\* alignment, dist_at, hit_at, path_at, path_at_reverse, alignment_at)
\* leaves the history and the iterator as they were.
C20_HistoryOncePerStep ==
    /\ [](handle \in {"FullMatches", "LazyMatches"} =>
            \E h \in {StatefulHandle} :
                /\ h.state = ColumnsUpTo(h.text)[h.text + 1]
                /\ h.traceback.pos = (h.text + 1) % h.traceback.n
                /\ Len(h.states_store) = h.traceback.n
                /\ h.states_store = HistoryAfter(h.traceback.n, h.text))
    /\ [][ret'.call \in FullQueries \cup {"alignment"} \cup LazyQueries =>
             full' = full /\ lazy' = lazy]_vars

C20_Witness ==
    /\ handle = "FullMatches"
    /\ ret.call = "next_end"
    /\ full.traceback.pos < full.text
    /\ Len(yielded) >= 1
    /\ Len(yielded) < full.text
    /\ Len(pattern) >= 2

\* C21: after every transition from the initial state the column's dist is
\* within 0 .. m and is the known value known_dist reports (the reference
\* value at row m); a transition changes dist by at most 1, at most one of
\* the two bottom-row carries is set, dist += 1 is applied only below the
\* ceiling of the distance type and dist -= 1 only above zero, so the new
\* dist is the plain sum and the clamping of the type never takes effect.
C21_DistInRange ==
    /\ [](handle = "Column" =>
             /\ column.state.dist \in 0 .. Len(pattern)
             /\ known_dist(column.state) = Some(column.ref[Len(pattern) + 1]))
    /\ [][handle = "Column" /\ ret'.call = "step" =>
             \E c \in {step_carry(pattern, column.state, ret'.arg[1])},
                d \in {column.state.dist} :
                 /\ ~(c.inc /\ c.dec)
                 /\ c.inc => d < DistMax
                 /\ c.dec => d > 0
                 /\ column'.state.dist = d + (IF c.inc THEN 1 ELSE 0)
                                            - (IF c.dec THEN 1 ELSE 0)
                 /\ column'.state.dist - d \in {-1, 0, 1}]_vars

C21_Witness ==
    /\ handle = "Column"
    /\ ret.call = "step"
    /\ Len(pattern) >= 2
    /\ column.state.dist = 0

\* The traceback of the column of text position e in a store that keeps
\* every column of the text (the store of find_all_lazy on a new engine,
\* scanned up to e).
UnboundedTraceback(e) ==
    The({traceback_at(lz.traceback, e, Some(<<>>), lz.states_store)
         : lz \in {FreshLazyFrom(find_all_lazy(pattern, <<>>, Len(text), max_dist),
                                  e + 1)}})

\* C22: while a match yielded by the full search at end position pos is
\* the most recent one, the traceback of the newest column returns
\* (len, distance) with the yielded distance, m - distance <= len <=
\* m + distance, len <= pos + 1 and len <= m + min(max_dist, m), which is
\* the number of columns FullMatches::new gives to the store; start() is
\* pos + 1 - len computed without going below zero and is at most the
\* yielded (exclusive) end pos + 1; and the traceback finds every column
\* it reads still in the cyclic store: length, distance and operations
\* are those of a store that has kept every column of the text.
C22_LengthWithinWindow ==
    handle = "FullMatches" /\ AfterAdvance /\ yielded # <<>>
    /\ ~full.unsuccessfully_finished =>
        \E t \in {traceback(full.traceback, Some(<<>>), full.states_store)},
           m \in {full.m}, pos \in {full.pos}, y \in {yielded[Len(yielded)]} :
            /\ y[1] = pos
            /\ full.traceback.n = m + Min2(full.max_dist, m) + 2
            /\ t.ret # None
            /\ \E len \in {t.ret[1][1]}, dist \in {t.ret[1][2]} :
                  /\ dist = y[2]
                  /\ dist <= full.max_dist
                  /\ m - dist <= len /\ len <= m + dist
                  /\ len <= pos + 1
                  /\ len <= m + Min2(full.max_dist, m)
                  /\ start(full) = Some(pos + 1 - len)
                  /\ pos + 1 - len \in 0 .. (pos + 1)
            /\ t = UnboundedTraceback(pos)

C22_Witness ==
    /\ handle = "FullMatches"
    /\ ret.call = "next_path"
    /\ ret.val # None
    /\ full.pos + 2 >= full.traceback.n
    /\ ret.val[1][2] - ret.val[1][1] = full.traceback.n - 2
    /\ ret.val[1][1] > 0

====
